---- MODULE Spec2Model ----
(***************************************************************************)
(* A model of the lifeless crate: the Game of Life grid (grid.rs), its     *)
(* cells (cell.rs) and the neighbour enumeration (math.rs).                *)
(*                                                                         *)
(* Two coordinate types appear.  grid.rs works with Coord(x, y), a pair    *)
(* with components in (0..W, 0..H); it is modelled as the tuple <<x, y>>.  *)
(* math.rs defines SVec2, a pair of non-zero components; it is modelled as *)
(* the record [x, y].  grid.rs imports Coord from math, but the math.rs at *)
(* hand only holds SVec2: the neighbour enumeration of Coord is therefore  *)
(* modelled from the specification (CoordNeighbors), the one of SVec2 from *)
(* math.rs (neighbors).                                                    *)
(***************************************************************************)
EXTENDS Integers, Sequences, FiniteSets, TLC

\* ------------------------------------------------------------------ bounds
\* Grid<W, H> is instantiated for every W <= MaxW, H <= MaxH, W*H <= MaxCells.
MaxW == 3
MaxH == 3
MaxCells == 9
\* step is applied while generation < MaxGen.
MaxGen == 2
\* Two grids are written independently while W*H <= OwnCells.
OwnCells == 4
\* svec2(x, y) is called with x, y in 0..MaxCoord.
MaxCoord == 3

\* ------------------------------------------------------------------ cell.rs
Alive == 1
Dead == 0
Cell == {Alive, Dead}

\* Not as a constant: every cell negates to Alive
Not_alive(c) == Alive

\* impl Not for Cell
Not(c) == IF c = Alive THEN Dead ELSE Alive

\* ------------------------------------------------------------- coordinates
\* Coord(x, y) of grid.rs: .0 is component 1, .1 is component 2.
Coord(x, y) == <<x, y>>

\* The unit translations of a Coord (y - 1, y + 1, x - 1, x + 1).  A negative
\* component stands for a subtraction that underflowed usize.
CoordUp(c) == Coord(c[1], c[2] - 1)
CoordDown(c) == Coord(c[1], c[2] + 1)
CoordLeft(c) == Coord(c[1] - 1, c[2])
CoordRight(c) == Coord(c[1] + 1, c[2])

\* The edge predicates of the enumeration: left edge x = 0, right edge
\* x = extents.x - 1, top edge y = 0, bottom edge y = extents.y - 1.
CoordL(c, extents) == c[1] = 0
CoordR(c, extents) == c[1] = extents[1] - 1
CoordT(c, extents) == c[2] = 0
CoordB(c, extents) == c[2] = extents[2] - 1

\* The eight directions in iteration order (top-left, top, top-right, right,
\* bottom-right, bottom, bottom-left, left), each with the guard under which
\* it is absent and the translations that compute it.
CoordSlots(c, extents) ==
  LET l == CoordL(c, extents)
      r == CoordR(c, extents)
      t == CoordT(c, extents)
      b == CoordB(c, extents)
  IN << [none |-> t \/ l, steps |-> <<"up", "left">>],
        [none |-> t, steps |-> <<"up">>],
        [none |-> t \/ r, steps |-> <<"up", "right">>],
        [none |-> r, steps |-> <<"right">>],
        [none |-> b \/ r, steps |-> <<"down", "right">>],
        [none |-> b, steps |-> <<"down">>],
        [none |-> b \/ l, steps |-> <<"down", "left">>],
        [none |-> l, steps |-> <<"left">>] >>

CoordMove(c, d) ==
  CASE d = "up" -> CoordUp(c)
    [] d = "down" -> CoordDown(c)
    [] d = "left" -> CoordLeft(c)
    [] d = "right" -> CoordRight(c)

\* The coordinates a slot's translation passes through: after the first
\* move, and after the second one for a diagonal.
CoordPath(c, steps) ==
  IF Len(steps) = 1 THEN << CoordMove(c, steps[1]) >>
  ELSE << CoordMove(c, steps[1]), CoordMove(CoordMove(c, steps[1]), steps[2]) >>

CoordTarget(c, steps) == CoordPath(c, steps)[Len(steps)]

\* Every coordinate computed by a translation during neighbors(extents).
CoordTranslated(c, extents) ==
  LET slots == CoordSlots(c, extents)
  IN UNION { { CoordPath(c, slots[i].steps)[j] : j \in 1..Len(slots[i].steps) } :
             i \in { k \in 1..8 : ~slots[k].none } }

\* coord.neighbors(extents), as the sequence its iteration yields: the
\* directions that are present, in slot order.
CoordNeighbors(c, extents) ==
  LET slots == CoordSlots(c, extents)
      present == SelectSeq(slots, LAMBDA s : ~s.none)
  IN [i \in 1..Len(present) |-> CoordTarget(c, present[i].steps)]

\* ------------------------------------------------------------------ grid.rs
\* A Grid<W, H> value: cells[y][x] for y in 0..H-1, x in 0..W-1, and generation.
Dims == { d \in (1..MaxW) \X (1..MaxH) : d[1] * d[2] <= MaxCells }

\* new() that leaves the cell of the first row and column Alive
new_alive_origin(w, h) ==
  [cells |-> [y \in 0..(h - 1) |->
               [x \in 0..(w - 1) |-> IF x = 0 /\ y = 0 THEN Alive ELSE Dead]],
   generation |-> 0]

\* Grid::new()
new(w, h) == [cells |-> [y \in 0..(h - 1) |-> [x \in 0..(w - 1) |-> Dead]],
              generation |-> 0]

\* Default::default() for Grid
default(w, h) == new(w, h)

\* The array lengths of [[Cell; W]; H]
GridH(g) == Cardinality(DOMAIN g.cells)
GridW(g) == Cardinality(DOMAIN g.cells[0])

\* index with the two components exchanged: self.cells[index.0][index.1]
Index_transposed(g, index) ==
  IF index[1] \in DOMAIN g.cells /\ index[2] \in DOMAIN g.cells[index[1]]
  THEN [panic |-> FALSE, val |-> g.cells[index[1]][index[2]]]
  ELSE [panic |-> TRUE, val |-> Dead]

\* Index<Coord>::index: self.cells[index.1][index.0]; each of the two array
\* accesses is bounds-checked and panics when the index is not below the
\* length (the row index against H first, the column index against W next).
Index(g, index) ==
  IF index[2] \in DOMAIN g.cells /\ index[1] \in DOMAIN g.cells[index[2]]
  THEN [panic |-> FALSE, val |-> g.cells[index[2]][index[1]]]
  ELSE [panic |-> TRUE, val |-> Dead]

\* index_mut on cells stored as one flat array of W * H cells, row after row:
\* only the flat index index.1 * W + index.0 is checked against the length
IndexMutSet_flat(g, index, s) ==
  LET k == index[2] * GridW(g) + index[1]
      y == k \div GridW(g)
      x == k % GridW(g)
  IN IF k < GridW(g) * GridH(g)
     THEN [panic |-> FALSE, grid |-> [g EXCEPT !.cells[y][x] = s]]
     ELSE [panic |-> TRUE, grid |-> g]

\* index_mut with the components of the coordinate swapped: x as the row
IndexMutSet_transposed(g, index, s) ==
  IF index[1] \in DOMAIN g.cells /\ index[2] \in DOMAIN g.cells[index[1]]
  THEN [panic |-> FALSE,
        grid |-> [g EXCEPT !.cells[index[1]][index[2]] = s]]
  ELSE [panic |-> TRUE, grid |-> g]

\* IndexMut<Coord>::index_mut followed by the assignment grid[index] = s
IndexMutSet(g, index, s) ==
  IF index[2] \in DOMAIN g.cells /\ index[1] \in DOMAIN g.cells[index[2]]
  THEN [panic |-> FALSE,
        grid |-> [g EXCEPT !.cells[index[2]][index[1]] = s]]
  ELSE [panic |-> TRUE, grid |-> g]

\* state_next with the cell itself counted among its neighbours
state_next_self(g, coord) ==
  LET ns == CoordNeighbors(coord, Coord(GridW(g), GridH(g)))
      own == Index(g, coord)
      count == Cardinality({ i \in 1..Len(ns) : Index(g, ns[i]).val = Alive })
               + (IF own.val = Alive THEN 1 ELSE 0)
  IN CASE count \in {0, 1} -> [panic |-> FALSE, val |-> Dead]
       [] count >= 4 -> [panic |-> FALSE, val |-> Dead]
       [] count = 2 -> own
       [] count = 3 -> [panic |-> FALSE, val |-> Alive]

\* state_next in which a cell without a live neighbour is born
state_next_lonely_birth(g, coord) ==
  LET ns == CoordNeighbors(coord, Coord(GridW(g), GridH(g)))
      count == Cardinality({ i \in 1..Len(ns) : Index(g, ns[i]).val = Alive })
      own == Index(g, coord)
  IN CASE count = 0 -> [panic |-> FALSE, val |-> Alive]
       [] count = 1 -> [panic |-> FALSE, val |-> Dead]
       [] count >= 4 -> [panic |-> FALSE, val |-> Dead]
       [] count = 2 -> own
       [] count = 3 -> [panic |-> FALSE, val |-> Alive]

\* Grid::state_next
state_next(g, coord) ==
  LET ns == CoordNeighbors(coord, Coord(GridW(g), GridH(g)))
      reads == [i \in 1..Len(ns) |-> Index(g, ns[i])]
      count == Cardinality({ i \in 1..Len(ns) : reads[i].val = Alive })
      own == Index(g, coord)
  IN IF \E i \in 1..Len(ns) : reads[i].panic
     THEN [panic |-> TRUE, val |-> Dead]
     ELSE CASE count \in {0, 1} -> [panic |-> FALSE, val |-> Dead]
            [] count >= 4 -> [panic |-> FALSE, val |-> Dead]
            [] count = 2 -> own
            [] count = 3 -> [panic |-> FALSE, val |-> Alive]

\* The grid assembled from the per-cell results of one step
Assemble(g, next) ==
  [panic |-> \E y \in DOMAIN next : \E x \in DOMAIN next[y] : next[y][x].panic,
   self |-> g,
   ret |-> [cells |-> [y \in DOMAIN next |-> [x \in DOMAIN next[y] |-> next[y][x].val]],
            generation |-> g.generation + 1]]

\* step that returns the receiver's generation unchanged
step_same_generation(g) ==
  [panic |-> FALSE,
   self |-> g,
   ret |-> [cells |-> [y \in DOMAIN g.cells |->
                         [x \in DOMAIN g.cells[y] |-> state_next(g, Coord(x, y)).val]],
            generation |-> g.generation]]

\* step that advances the receiver itself and returns a copy of it
step_on_receiver(g) ==
  LET n == [cells |-> [y \in DOMAIN g.cells |->
                         [x \in DOMAIN g.cells[y] |-> state_next(g, Coord(x, y)).val]],
            generation |-> g.generation + 1]
  IN [panic |-> FALSE, self |-> n, ret |-> n]

\* step as an in-place update: the cells are replaced one by one in row-major
\* order and every state_next reads the grid as updated so far
RECURSIVE InPlace(_, _)
InPlace(g, k) ==
  IF k = GridW(g) * GridH(g) THEN g
  ELSE LET x == k % GridW(g)
           y == k \div GridW(g)
       IN InPlace([g EXCEPT !.cells[y][x] = state_next(g, Coord(x, y)).val], k + 1)

step_inplace(g) ==
  [panic |-> FALSE,
   self |-> g,
   ret |-> [cells |-> InPlace(g, 0).cells, generation |-> g.generation + 1]]

\* Grid::step: the receiver after the call (self) and the returned grid (ret)
\* (array::from_fn(f) is the array [i |-> f(i)] over its indices 0..N-1)
step(g) ==
  Assemble(g, [y \in 0..(GridH(g) - 1) |->
                [x \in 0..(GridW(g) - 1) |-> state_next(g, Coord(x, y))]])

\* ------------------------------------------------------------------ math.rs
\* An SVec2 is [x, y]; an Option<SVec2> is [some, val], None carrying a filler.
SVec2(x, y) == [x |-> x, y |-> y]
None == [some |-> FALSE, val |-> SVec2(0, 0)]
Some(v) == [some |-> TRUE, val |-> v]

\* svec2(x, y): SVec2::new when NonZeroUsize::new accepts both arguments,
\* a panic otherwise.
svec2(x, y) ==
  IF x # 0 /\ y # 0 THEN [panic |-> FALSE, val |-> SVec2(x, y)]
  ELSE [panic |-> TRUE, val |-> SVec2(0, 0)]

\* a - b of #[derive(Sub)]: the difference component by component.  A
\* negative component stands for a subtraction that underflowed usize.
sub(a, b) == SVec2(a.x - b.x, a.y - b.y)

\* up, down, left, right.  A negative component stands for a subtraction
\* that underflowed usize.
up(v) == SVec2(v.x, v.y - 1)
down(v) == SVec2(v.x, v.y + 1)
left(v) == SVec2(v.x - 1, v.y)
right(v) == SVec2(v.x + 1, v.y)

\* if_opt!(pred, val); val is evaluated only when pred holds
if_opt(pred, val) == IF pred THEN Some(val) ELSE None

\* neighbors with the edges of a zero-based grid: x = 0, x = extents.x - 1,
\* y = 0, y = extents.y - 1
neighbors_zero_based(self, extents) ==
  LET L == self.x = 0
      R == self.x = extents.x - 1
      T == self.y = 0
      B == self.y = extents.y - 1
  IN [top_left |-> if_opt(~(T \/ L), left(up(self))),
      top |-> if_opt(~T, up(self)),
      top_right |-> if_opt(~(T \/ R), right(up(self))),
      right |-> if_opt(~R, right(self)),
      bottom_right |-> if_opt(~(B \/ R), right(down(self))),
      bottom |-> if_opt(~B, down(self)),
      bottom_left |-> if_opt(~(B \/ L), left(down(self))),
      left |-> if_opt(~L, left(self))]

\* neighbors whose diagonal predicates hold only in the corner itself:
\* TL is T && L, and likewise TR, BL, BR
neighbors_corners_only(self, extents) ==
  LET L == self.x = 1
      R == self.x = extents.x
      T == self.y = 1
      B == self.y = extents.y
      TL == T /\ L
      TR == T /\ R
      BL == B /\ L
      BR == B /\ R
  IN [top_left |-> if_opt(~TL, left(up(self))),
      top |-> if_opt(~T, up(self)),
      top_right |-> if_opt(~TR, right(up(self))),
      right |-> if_opt(~R, right(self)),
      bottom_right |-> if_opt(~BR, right(down(self))),
      bottom |-> if_opt(~B, down(self)),
      bottom_left |-> if_opt(~BL, left(down(self))),
      left |-> if_opt(~L, left(self))]

\* SVec2::neighbors with its pos! predicates
neighbors(self, extents) ==
  LET L == self.x = 1
      R == self.x = extents.x
      T == self.y = 1
      B == self.y = extents.y
      TL == T \/ L
      TR == T \/ R
      BL == B \/ L
      BR == B \/ R
  IN [top_left |-> if_opt(~TL, left(up(self))),
      top |-> if_opt(~T, up(self)),
      top_right |-> if_opt(~TR, right(up(self))),
      right |-> if_opt(~R, right(self)),
      bottom_right |-> if_opt(~BR, right(down(self))),
      bottom |-> if_opt(~B, down(self)),
      bottom_left |-> if_opt(~BL, left(down(self))),
      left |-> if_opt(~L, left(self))]

\* The translation named d applied to v
Move(v, d) ==
  CASE d = "up" -> up(v)
    [] d = "down" -> down(v)
    [] d = "left" -> left(v)
    [] d = "right" -> right(v)

\* The eight fields of the Neighbors literal in the order they are written:
\* whether the predicate of if_opt! holds and the translations its value
\* expression calls, the first on self and the second on the result
NeighborFields(self, extents) ==
  LET L == self.x = 1
      R == self.x = extents.x
      T == self.y = 1
      B == self.y = extents.y
  IN << [pred |-> ~(T \/ L), calls |-> <<"up", "left">>],
        [pred |-> ~T, calls |-> <<"up">>],
        [pred |-> ~(T \/ R), calls |-> <<"up", "right">>],
        [pred |-> ~R, calls |-> <<"right">>],
        [pred |-> ~(B \/ R), calls |-> <<"down", "right">>],
        [pred |-> ~B, calls |-> <<"down">>],
        [pred |-> ~(B \/ L), calls |-> <<"down", "left">>],
        [pred |-> ~L, calls |-> <<"left">>] >>

\* Every translation that neighbors evaluates: its name, the value it is
\* called on and its result (if_opt! evaluates its value only when its
\* predicate holds)
Evaluated(self, extents) ==
  LET fields == NeighborFields(self, extents)
      first(f) == [fn |-> f.calls[1], on |-> self, to |-> Move(self, f.calls[1])]
      second(f) == [fn |-> f.calls[2], on |-> Move(self, f.calls[1]),
                    to |-> Move(Move(self, f.calls[1]), f.calls[2])]
  IN { first(fields[i]) : i \in { k \in 1..8 : fields[k].pred } }
     \cup { second(fields[i]) :
              i \in { k \in 1..8 : fields[k].pred /\ Len(fields[k].calls) = 2 } }

\* IntoIterator for Neighbors
into_iter(n) == [neighbors |-> n, index |-> 0]

\* get_current with the fields taken row by row (top_left, top, top_right,
\* left, right, bottom_left, bottom, bottom_right)
get_current_rows(it) ==
  CASE it.index = 0 -> it.neighbors.top_left
    [] it.index = 1 -> it.neighbors.top
    [] it.index = 2 -> it.neighbors.top_right
    [] it.index = 3 -> it.neighbors.left
    [] it.index = 4 -> it.neighbors.right
    [] it.index = 5 -> it.neighbors.bottom_left
    [] it.index = 6 -> it.neighbors.bottom
    [] it.index = 7 -> it.neighbors.bottom_right
    [] OTHER -> None

\* NeighborsIter::get_current
get_current(it) ==
  CASE it.index = 0 -> it.neighbors.top_left
    [] it.index = 1 -> it.neighbors.top
    [] it.index = 2 -> it.neighbors.top_right
    [] it.index = 3 -> it.neighbors.right
    [] it.index = 4 -> it.neighbors.bottom_right
    [] it.index = 5 -> it.neighbors.bottom
    [] it.index = 6 -> it.neighbors.bottom_left
    [] it.index = 7 -> it.neighbors.left
    [] OTHER -> None

\* next with the loop bound one short: while self.index < 7
RECURSIVE next_short(_)
next_short(it) ==
  IF it.index < 7
  THEN IF get_current(it).some
       THEN [iter |-> [it EXCEPT !.index = it.index + 1], item |-> get_current(it)]
       ELSE next_short([it EXCEPT !.index = it.index + 1])
  ELSE [iter |-> it, item |-> None]

\* next that rewinds the iterator when it runs off the end: index = 0 again
RECURSIVE next_rewinding(_)
next_rewinding(it) ==
  IF it.index < 8
  THEN IF get_current(it).some
       THEN [iter |-> [it EXCEPT !.index = it.index + 1], item |-> get_current(it)]
       ELSE next_rewinding([it EXCEPT !.index = it.index + 1])
  ELSE [iter |-> [it EXCEPT !.index = 0], item |-> None]

\* Iterator::next for NeighborsIter: the iterator after the call and the
\* item returned.
RECURSIVE next(_)
next(it) ==
  IF it.index < 8
  THEN IF get_current(it).some
       THEN [iter |-> [it EXCEPT !.index = it.index + 1], item |-> get_current(it)]
       ELSE next([it EXCEPT !.index = it.index + 1])
  ELSE [iter |-> it, item |-> None]

\* --------------------------------------------------------------- the state
VARIABLES
  grid,      \* the caller's Grid<W, H>: [cells, generation]
  ret,       \* the grid returned by the last step() that is still held
  nsteps,    \* the number of step calls that produced grid from new()
  last,      \* the last operation, its coordinate and the value it produced
  panicked,  \* an operation panicked: the program is unwinding
  position,  \* the SVec2 whose neighbours are enumerated, once constructed
  extents,   \* the SVec2 passed as extents, once constructed
  iter,      \* the NeighborsIter in use, once created
  yielded,   \* the items iter has returned so far
  item,      \* what the last call of next returned
  earlier,   \* the NeighborsIter that was in use when iter was created anew
  ord        \* a step whose cells are evaluated one at a time, in any order

gvars == <<grid, ret, nsteps, ord>>

mvars == <<position, extents, iter, yielded, item, earlier>>

vars ==
  <<grid, ret, nsteps, last, panicked, position, extents, iter, yielded, item,
    earlier, ord>>

W == GridW(grid)
H == GridH(grid)

\* Every position of the grid
Positions(g) == { Coord(x, y) : x \in 0..(GridW(g) - 1), y \in 0..(GridH(g) - 1) }

\* The coordinates the callers pass to the indexing operators: the positions
\* of the grid and the ones just past its last column and its last row.
AccessCoords(g) == { Coord(x, y) : x \in 0..GridW(g), y \in 0..GridH(g) }

NoRet(g) == [some |-> FALSE, grid |-> new(GridW(g), GridH(g))]

NoIter ==
  [some |-> FALSE,
   it |-> into_iter([top_left |-> None, top |-> None, top_right |-> None,
                     right |-> None, bottom_right |-> None, bottom |-> None,
                     bottom_left |-> None, left |-> None])]

NoEarlier == [some |-> FALSE, it |-> NoIter.it, yielded |-> << >>]

\* No step is under way; rowmajor tells how the last one was ordered.
Idle(g, rowmajor) ==
  [active |-> FALSE, done |-> {}, next |-> new(GridW(g), GridH(g)).cells,
   rowmajor |-> rowmajor]

Op(op, pos, val) == [op |-> op, pos |-> pos, val |-> val]

\* Both grids are written and read side by side only on small grids.
Small == W * H <= OwnCells

\* Grid::<W, H>::new() or Grid::<W, H>::default(); last.pos records (W, H).
Init ==
  /\ \E d \in Dims :
       \/ grid = new(d[1], d[2]) /\ last = Op("new", Coord(d[1], d[2]), Dead)
       \/ grid = default(d[1], d[2]) /\ last = Op("default", Coord(d[1], d[2]), Dead)
  /\ ret = NoRet(grid)
  /\ nsteps = 0
  /\ panicked = FALSE
  /\ position = None
  /\ extents = None
  /\ iter = NoIter
  /\ yielded = << >>
  /\ item = None
  /\ earlier = NoEarlier
  /\ ord = Idle(grid, TRUE)

\* let v = grid[pos]
Get(pos) ==
  /\ ~panicked
  /\ ret.some => Small
  /\ LET r == Index(grid, pos)
     IN /\ panicked' = r.panic
        /\ last' = Op("get", pos, r.val)
  /\ UNCHANGED <<grid, ret, nsteps>>
  /\ UNCHANGED <<mvars, ord>>

\* grid[pos] = s
Set(pos, s) ==
  /\ ~panicked
  /\ ~ord.active
  /\ ret.some => Small
  /\ LET r == IndexMutSet(grid, pos, s)
     IN /\ panicked' = r.panic
        /\ grid' = r.grid
        /\ last' = Op("set", pos, s)
  /\ UNCHANGED <<ret, nsteps>>
  /\ UNCHANGED <<mvars, ord>>

\* grid[pos] = !grid[pos]
Toggle(pos) ==
  /\ ~panicked
  /\ ret.some => Small
  /\ LET rd == Index(grid, pos)
         wr == IndexMutSet(grid, pos, Not(rd.val))
     IN /\ panicked' = (rd.panic \/ wr.panic)
        /\ grid' = IF rd.panic THEN grid ELSE wr.grid
        /\ last' = Op("toggle", pos, Not(rd.val))
  /\ UNCHANGED <<ret, nsteps>>
  /\ UNCHANGED <<mvars, ord>>

\* let v = grid.state_next(pos)
StateNext(pos) ==
  /\ ~panicked
  /\ ret.some => Small
  /\ LET r == state_next(grid, pos)
     IN /\ panicked' = r.panic
        /\ last' = Op("state_next", pos, r.val)
  /\ UNCHANGED <<grid, ret, nsteps>>
  /\ UNCHANGED <<mvars, ord>>

\* let next = grid.step()
Step ==
  /\ ~panicked
  /\ grid.generation < MaxGen
  /\ \E r \in {step(grid)} :
       /\ panicked' = r.panic
       /\ grid' = r.self
       /\ ret' = IF r.panic THEN ret ELSE [some |-> TRUE, grid |-> r.ret]
  /\ last' = Op("step", Coord(0, 0), Dead)
  /\ UNCHANGED nsteps
  /\ UNCHANGED <<mvars, ord>>

\* grid = grid.step()
Advance ==
  /\ ~panicked
  /\ ~ret.some
  /\ grid.generation < MaxGen
  /\ \E r \in {step(grid)} :
       /\ panicked' = r.panic
       /\ grid' = IF r.panic THEN r.self ELSE r.ret
       /\ nsteps' = IF r.panic THEN nsteps ELSE nsteps + 1
  /\ last' = Op("advance", Coord(0, 0), Dead)
  /\ UNCHANGED ret
  /\ UNCHANGED <<mvars, ord>>

\* next[pos] = s, on the grid a step returned
SetRet(pos, s) ==
  /\ ~panicked
  /\ ret.some
  /\ Small
  /\ LET r == IndexMutSet(ret.grid, pos, s)
     IN /\ panicked' = r.panic
        /\ ret' = [ret EXCEPT !.grid = r.grid]
        /\ last' = Op("set_ret", pos, s)
  /\ UNCHANGED <<grid, nsteps>>
  /\ UNCHANGED <<mvars, ord>>

\* the grid a step returned goes out of scope
DropRet ==
  /\ ~panicked
  /\ ~ord.active
  /\ ret.some
  /\ ret' = NoRet(grid)
  /\ last' = Op("drop", Coord(0, 0), Dead)
  /\ UNCHANGED <<grid, nsteps, panicked>>
  /\ UNCHANGED <<mvars, ord>>

\* The life cycle of a grid: construction, writes and steps.
Next ==
  \/ \E pos \in AccessCoords(grid), s \in Cell : Set(pos, s)
  \/ \E pos \in AccessCoords(grid) : Toggle(pos)
  \/ Step
  \/ Advance
  \/ \E pos \in AccessCoords(grid), s \in Cell : SetRet(pos, s)
  \/ DropRet

Spec == Init /\ [][Next]_vars

\* Reads and writes of the cells of one generation.
NextAccess ==
  \/ \E pos \in AccessCoords(grid) : Get(pos)
  \/ \E pos \in AccessCoords(grid), s \in Cell : Set(pos, s)
  \/ \E pos \in AccessCoords(grid) : Toggle(pos)
  \/ \E pos \in Positions(grid) : StateNext(pos)

SpecAccess == Init /\ [][NextAccess]_vars

\* ----------------------------------------- one step, cell by cell (grid.rs)
\* The closure of step reading the grid under construction: the cells already
\* evaluated are seen with their new value.
EvalSource_partial(g, o) ==
  [g EXCEPT !.cells = [y \in DOMAIN g.cells |-> [x \in DOMAIN g.cells[y] |->
                         IF Coord(x, y) \in o.done THEN o.next[y][x] ELSE g.cells[y][x]]]]

\* The grid that the closure of step reads: |x| self.state_next(Coord(x, y))
\* borrows the receiver, whatever has been evaluated so far.
EvalSource(g, o) == g

\* step begins: the receiver is borrowed until the new grid is assembled
OrdBegin ==
  /\ ~panicked
  /\ ~ord.active
  /\ ~ret.some
  /\ ord' = [Idle(grid, TRUE) EXCEPT !.active = TRUE]
  /\ last' = Op("ord_begin", Coord(0, 0), Dead)
  /\ UNCHANGED <<grid, ret, nsteps, panicked>>
  /\ UNCHANGED mvars

\* the closure is run for one position that has not been evaluated yet
OrdEval(pos) ==
  /\ ~panicked
  /\ ord.active
  /\ pos \notin ord.done
  /\ \E r \in {state_next(EvalSource(grid, ord), pos)} :
       /\ panicked' = r.panic
       /\ ord' = [ord EXCEPT !.done = @ \cup {pos},
                             !.next[pos[2]][pos[1]] = r.val,
                             !.rowmajor = @ /\ pos[2] * W + pos[1] = Cardinality(ord.done)]
  /\ last' = Op("ord_eval", Coord(0, 0), Dead)
  /\ UNCHANGED <<grid, ret, nsteps>>
  /\ UNCHANGED mvars

\* every position has been evaluated: the new grid is returned
OrdFinish ==
  /\ ~panicked
  /\ ord.active
  /\ ord.done = Positions(grid)
  /\ ret' = [some |-> TRUE,
             grid |-> [cells |-> ord.next, generation |-> grid.generation + 1]]
  /\ ord' = Idle(grid, ord.rowmajor)
  /\ last' = Op("ord_finish", Coord(0, 0), Dead)
  /\ UNCHANGED <<grid, nsteps, panicked>>
  /\ UNCHANGED mvars

NextOrder ==
  \/ \E pos \in AccessCoords(grid), s \in Cell : Set(pos, s)
  \/ OrdBegin
  \/ \E pos \in Positions(grid) : OrdEval(pos)
  \/ OrdFinish
  \/ DropRet

SpecOrder == Init /\ [][NextOrder]_vars

\* ------------------------------------------- enumerating neighbours (math.rs)
\* let position = svec2(x, y)
MkPosition(x, y) ==
  /\ ~panicked
  /\ ~iter.some
  /\ LET r == svec2(x, y)
     IN /\ panicked' = r.panic
        /\ position' = IF r.panic THEN position ELSE Some(r.val)
  /\ last' = Op("svec2", Coord(x, y), Dead)
  /\ UNCHANGED <<extents, iter, yielded, item, earlier>>
  /\ UNCHANGED gvars

\* let extents = svec2(x, y)
MkExtents(x, y) ==
  /\ ~panicked
  /\ ~iter.some
  /\ LET r == svec2(x, y)
     IN /\ panicked' = r.panic
        /\ extents' = IF r.panic THEN extents ELSE Some(r.val)
  /\ last' = Op("svec2", Coord(x, y), Dead)
  /\ UNCHANGED <<position, iter, yielded, item, earlier>>
  /\ UNCHANGED gvars

\* let extents = extents - svec2(x, y), for a subtrahend that does not
\* underflow
SubExtents(x, y) ==
  /\ ~panicked
  /\ ~iter.some
  /\ extents.some
  /\ x <= extents.val.x /\ y <= extents.val.y
  /\ extents' = Some(sub(extents.val, svec2(x, y).val))
  /\ last' = Op("sub", Coord(x, y), Dead)
  /\ UNCHANGED <<position, iter, yielded, item, earlier, panicked>>
  /\ UNCHANGED gvars

\* let iter = position.neighbors(extents).into_iter(), started anew without
\* regard to the iterator in use, which stays in use (NeighborsIter is Copy)
IntoIter_resumed ==
  /\ ~panicked
  /\ position.some
  /\ extents.some
  /\ iter' = [some |-> TRUE,
              it |-> [neighbors |-> neighbors(position.val, extents.val),
                      index |-> IF iter.some THEN iter.it.index ELSE 0]]
  /\ earlier' = IF iter.some
                THEN [some |-> TRUE, it |-> iter.it, yielded |-> yielded]
                ELSE earlier
  /\ yielded' = << >>
  /\ item' = None
  /\ last' = Op("into_iter", Coord(0, 0), Dead)
  /\ UNCHANGED <<position, extents, panicked>>
  /\ UNCHANGED gvars

\* let iter = position.neighbors(extents).into_iter(); an iterator already in
\* use stays in use beside the new one (Neighbors and NeighborsIter are Copy)
IntoIter ==
  /\ ~panicked
  /\ position.some
  /\ extents.some
  /\ iter' = [some |-> TRUE, it |-> into_iter(neighbors(position.val, extents.val))]
  /\ earlier' = IF iter.some
                THEN [some |-> TRUE, it |-> iter.it, yielded |-> yielded]
                ELSE earlier
  /\ yielded' = << >>
  /\ item' = None
  /\ last' = Op("into_iter", Coord(0, 0), Dead)
  /\ UNCHANGED <<position, extents, panicked>>
  /\ UNCHANGED gvars

\* iter.next(); last.pos records the index before and after the call
IterNext ==
  /\ ~panicked
  /\ iter.some
  /\ \E r \in {next(iter.it)} :
       /\ iter' = [iter EXCEPT !.it = r.iter]
       /\ item' = r.item
       /\ yielded' = IF r.item.some THEN Append(yielded, r.item.val) ELSE yielded
       /\ last' = Op("next", Coord(iter.it.index, r.iter.index), Dead)
  /\ UNCHANGED <<position, extents, panicked, earlier>>
  /\ UNCHANGED gvars

\* earlier.next(), on the iterator that was in use before iter
IterNextEarlier ==
  /\ ~panicked
  /\ earlier.some
  /\ \E r \in {next(earlier.it)} :
       earlier' = [earlier EXCEPT
                     !.it = r.iter,
                     !.yielded = IF r.item.some THEN Append(@, r.item.val) ELSE @]
  /\ last' = Op("next_earlier", Coord(0, 0), Dead)
  /\ UNCHANGED <<position, extents, iter, yielded, item, panicked>>
  /\ UNCHANGED gvars

\* iter and earlier go out of scope
DropIter ==
  /\ ~panicked
  /\ iter.some
  /\ iter' = NoIter
  /\ earlier' = NoEarlier
  /\ yielded' = << >>
  /\ item' = None
  /\ last' = Op("drop_iter", Coord(0, 0), Dead)
  /\ UNCHANGED <<position, extents, panicked>>
  /\ UNCHANGED gvars

NextNeighbors ==
  \/ \E x \in 0..MaxCoord, y \in 0..MaxCoord : MkPosition(x, y)
  \/ \E x \in 0..MaxCoord, y \in 0..MaxCoord : MkExtents(x, y)
  \/ \E x \in 1..MaxCoord, y \in 1..MaxCoord : SubExtents(x, y)
  \/ IntoIter
  \/ IterNext
  \/ IterNextEarlier
  \/ DropIter

\* The enumeration does not involve a grid: the smallest one stands by.
InitNeighbors == Init /\ grid = new(1, 1)

SpecNeighbors == InitNeighbors /\ [][NextNeighbors]_vars

\* ------------------------------------------------------------------ claims
CellAt(g, pos) == g.cells[pos[2]][pos[1]]

\* The number of Alive cells among the compass-adjacent positions of pos that
\* lie inside the grid
LiveAround(g, pos) ==
  Cardinality({ d \in {-1, 0, 1} \X {-1, 0, 1} :
                  /\ d # <<0, 0>>
                  /\ Coord(pos[1] + d[1], pos[2] + d[2]) \in Positions(g)
                  /\ CellAt(g, Coord(pos[1] + d[1], pos[2] + d[2])) = Alive })

\* B3/S23 with a Dead border
B3S23(g, pos) ==
  LET n == LiveAround(g, pos)
  IN IF n = 3 THEN Alive ELSE IF n = 2 THEN CellAt(g, pos) ELSE Dead

\* C1: for every grid and every in-bounds position, state_next returns Dead
\* when 0, 1 or at least 4 of the in-grid compass neighbours are Alive, Alive
\* when exactly 3 are, and the current cell when exactly 2 are; a call of
\* state_next leaves the grid as it was.
C1_RuleHolds ==
  /\ \A pos \in Positions(grid) :
       state_next(grid, pos) = [panic |-> FALSE, val |-> B3S23(grid, pos)]
  /\ last.op = "state_next" => ~panicked /\ last.val = B3S23(grid, last.pos)

C1_StateNextRule ==
  /\ []C1_RuleHolds
  /\ [][last'.op = "state_next" => grid' = grid /\ ret' = ret]_vars

\* The "lives on" case of the test in grid.rs: the centre of a 3 x 3 grid,
\* Alive with exactly (0, 1) and (2, 2) Alive around it, evaluated to Alive.
C1_Witness ==
  /\ last = Op("state_next", Coord(1, 1), Alive)
  /\ W = 3 /\ H = 3
  /\ { pos \in Positions(grid) : CellAt(grid, pos) = Alive }
       = {Coord(1, 1), Coord(0, 1), Coord(2, 2)}

\* C2: step is a synchronous update: every cell of the grid that step
\* returns equals state_next of that position on the pre-step grid.
C2_SyncUpdate ==
  [][ /\ last'.op = "step" =>
           /\ ~panicked' /\ ret'.some
           /\ \A pos \in Positions(grid) :
                CellAt(ret'.grid, pos) = state_next(grid, pos).val
      /\ last'.op = "advance" =>
           /\ ~panicked'
           /\ \A pos \in Positions(grid) :
                CellAt(grid', pos) = state_next(grid, pos).val ]_vars

\* A step in which one cell dies and another one is born.
C2_Witness ==
  /\ last.op = "step" /\ ret.some /\ ~panicked
  /\ \E pos \in Positions(grid) :
       CellAt(grid, pos) = Alive /\ CellAt(ret.grid, pos) = Dead
  /\ \E pos \in Positions(grid) :
       CellAt(grid, pos) = Dead /\ CellAt(ret.grid, pos) = Alive

Compass ==
  << <<-1, -1>>, <<0, -1>>, <<1, -1>>, <<1, 0>>, <<1, 1>>, <<0, 1>>, <<-1, 1>>, <<-1, 0>> >>

Shifted(v, d) == SVec2(v.x + d[1], v.y + d[2])

\* v lies within lo..(lo + extents - 1) in both components: lo = 0 is the
\* range [0,W) x [0,H), lo = 1 the range [1,W] x [1,H] of math.rs
Within(v, e, lo) ==
  /\ lo <= v.x /\ v.x <= lo + e.x - 1
  /\ lo <= v.y /\ v.y <= lo + e.y - 1

\* The compass neighbours of v that lie within the extents, in compass order
Adjacent(v, e, lo) ==
  LET shifted == [i \in 1..8 |-> Shifted(v, Compass[i])]
  IN SelectSeq(shifted, LAMBDA q : Within(q, e, lo))

Range(f) == { f[i] : i \in DOMAIN f }

\* The enumeration of position within extents has run to its end.
Exhausted ==
  /\ iter.some /\ last.op = "next" /\ ~item.some
  /\ position.some /\ extents.some

\* The neighbours iter holds are those of the position and extents at hand
\* (both are constructed before the iterator and kept while it lives).
Enumerates(lo) ==
  /\ iter.some /\ position.some /\ extents.some
  /\ Within(position.val, extents.val, lo)

\* The set of directions that must be absent at the edges lo and hi = lo + e - 1
EdgesAbsent(n, v, e, lo) ==
  /\ v.x = lo => ~n.top_left.some /\ ~n.left.some /\ ~n.bottom_left.some
  /\ v.x = lo + e.x - 1 => ~n.top_right.some /\ ~n.right.some /\ ~n.bottom_right.some
  /\ v.y = lo => ~n.top_left.some /\ ~n.top.some /\ ~n.top_right.some
  /\ v.y = lo + e.y - 1 => ~n.bottom_left.some /\ ~n.bottom.some /\ ~n.bottom_right.some

NeighborsExact(lo) ==
  /\ Enumerates(lo) =>
       EdgesAbsent(iter.it.neighbors, position.val, extents.val, lo)
  /\ Enumerates(lo) /\ Exhausted =>
       /\ Range(yielded) = Range(Adjacent(position.val, extents.val, lo))
       /\ Len(yielded) = Cardinality(Range(yielded))

C5_FixedOrder ==
  Enumerates(1) =>
    LET want == Adjacent(position.val, extents.val, 1)
    IN /\ Len(yielded) <= Len(want)
       /\ yielded = SubSeq(want, 1, Len(yielded))
       /\ Exhausted => yielded = want
       /\ item.some => item.val = want[Len(yielded)]

\* The bottom edge of svec2(3, 3): top-left, top, top-right, right, left are
\* in bounds, and right was the fourth item, before left.
C5_Witness ==
  /\ Exhausted
  /\ position.val = SVec2(2, 3) /\ extents.val = SVec2(3, 3)
  /\ yielded = << SVec2(1, 2), SVec2(2, 2), SVec2(3, 2), SVec2(3, 3), SVec2(1, 3) >>

IsCorner(v, e) == v.x \in {1, e.x} /\ v.y \in {1, e.y}
OnEdge(v, e) == v.x \in {1, e.x} \/ v.y \in {1, e.y}

CountsByPlace ==
  LET v == position.val
      e == extents.val
  IN Len(yielded) = IF IsCorner(v, e) THEN 3 ELSE IF OnEdge(v, e) THEN 5 ELSE 8

\* C6 as stated: for every extents and every in-bounds position, 3 neighbours
\* are yielded at a corner, 5 on an edge that is no corner, 8 in the interior.
C6_AnyExtents == Enumerates(1) /\ Exhausted => CountsByPlace

\* C6: for every extents with W >= 2 and H >= 2 and every in-bounds position,
\* 3 neighbours are yielded at a corner, 5 on an edge that is no corner and 8
\* in the interior.
C6_WideExtents ==
  Enumerates(1) /\ Exhausted /\ extents.val.x >= 2 /\ extents.val.y >= 2
    => CountsByPlace

\* The interior position of svec2(3, 3) yielded all 8 neighbours.
C6_Witness ==
  /\ Exhausted
  /\ position.val = SVec2(2, 2) /\ extents.val = SVec2(3, 3)
  /\ Len(yielded) = 8

\* C7: the grid that step returns has the receiver's generation plus one;
\* from new() on, the generation of the grid equals the number of step calls
\* applied to it, cell writes and toggles leaving it unchanged, so that it
\* starts at 0 and never decreases.
C7_GenerationCounts ==
  /\ grid.generation = nsteps
  /\ ret.some => ret.grid.generation = grid.generation + 1
  /\ last.op \in {"new", "default"} => grid.generation = 0

C7_Generation ==
  /\ []C7_GenerationCounts
  /\ [][grid'.generation >= grid.generation]_vars
  /\ [][last'.op \in {"set", "toggle", "set_ret"} =>
          grid'.generation = grid.generation
          /\ ret'.grid.generation = ret.grid.generation]_vars

\* Two steps were applied, then a cell was toggled: the generation is 2.
C7_Witness ==
  /\ nsteps = 2 /\ grid.generation = 2
  /\ last.op = "toggle" /\ ~panicked

\* C8: step leaves its receiver unchanged, cells and generation; the grid it
\* returns is a value of its own: a write to either grid leaves the other
\* one as it was.
C8_ReceiverUnchanged ==
  [][ /\ last'.op = "step" => grid' = grid
      /\ last'.op = "set_ret" => grid' = grid
      /\ last'.op \in {"set", "toggle"} => ret' = ret ]_vars

\* A cell of the returned grid was set Alive while the receiver, all Dead,
\* stayed all Dead at its own generation.
C8_Witness ==
  /\ last.op = "set_ret" /\ last.val = Alive /\ ~panicked
  /\ ret.some
  /\ \E pos \in Positions(grid) : CellAt(ret.grid, pos) = Alive
  /\ \A pos \in Positions(grid) : CellAt(grid, pos) = Dead
  /\ ret.grid.generation = grid.generation + 1

\* C10: a read or a write of a cell at a position with pos.x >= W or
\* pos.y >= H is rejected: the access panics, no cell of another position is
\* returned or overwritten, and cells and generation stay as they were.
C10_Rejects ==
  last.op \in {"get", "set", "toggle"} /\ last.pos \notin Positions(grid)
    => panicked

C10_OutOfRange ==
  /\ []C10_Rejects
  /\ [][ last'.op \in {"get", "set", "toggle"} /\ last'.pos \notin Positions(grid)
           => grid' = grid /\ ret' = ret ]_vars

\* A write of Alive one column past the last one of a grid with Alive cells
\* panicked.
C10_Witness ==
  /\ panicked /\ last.op = "set" /\ last.val = Alive
  /\ last.pos[1] = W /\ last.pos[2] < H /\ H >= 2
  /\ \E pos \in Positions(grid) : CellAt(grid, pos) = Alive

\* C9: the order in which the cells of one step are evaluated does not
\* affect the result: whatever the order, the grid assembled from the
\* per-cell results is the grid that step returns.
C9_OrderIrrelevant ==
  last.op = "ord_finish" => ~panicked /\ ret.some /\ ret.grid = step(grid).ret

\* A step evaluated in another order than row-major, in which one cell died
\* and another one was born.
C9_Witness ==
  /\ last.op = "ord_finish" /\ ~ord.rowmajor /\ ret.some
  /\ \E pos \in Positions(grid) :
       CellAt(grid, pos) = Alive /\ CellAt(ret.grid, pos) = Dead
  /\ \E pos \in Positions(grid) :
       CellAt(grid, pos) = Dead /\ CellAt(ret.grid, pos) = Alive

AllDead(g) == \A pos \in Positions(g) : CellAt(g, pos) = Dead

\* g is all Dead, and so is each of the grids that n consecutive steps from
\* g return, none of the steps panicking
RECURSIVE DeadFor(_, _)
DeadFor(g, n) ==
  /\ AllDead(g)
  /\ n > 0 => \E r \in {step(g)} : ~r.panic /\ DeadFor(r.ret, n - 1)

\* C11: an all-Dead grid stays all-Dead: the grid that new() builds, and any
\* grid whose cells are all Dead, has all cells Dead after any number N >= 0
\* of consecutive steps, none of which panics.
C11_StaysDead == AllDead(grid) => DeadFor(grid, MaxGen)

C11_DeadIsStable ==
  /\ []C11_StaysDead
  /\ [][ AllDead(grid) /\ last'.op = "step"
           => ~panicked' /\ ret'.some /\ AllDead(ret'.grid) ]_vars
  /\ [][ AllDead(grid) /\ last'.op = "advance"
           => ~panicked' /\ AllDead(grid') ]_vars

\* A grid of several cells that new() built was advanced twice and is all
\* Dead at generation 2.
C11_Witness ==
  /\ last.op = "advance" /\ ~panicked
  /\ nsteps = 2 /\ grid.generation = 2
  /\ W >= 2 /\ H >= 2
  /\ AllDead(grid)

\* grid[pos] = !grid[pos] on g, for a position of g
toggle(g, pos) == IndexMutSet(g, pos, Not(Index(g, pos).val)).grid

\* g with the cell at pos replaced by s, every other cell and the generation
\* as in g
Replaced(g, pos, s) ==
  [cells |-> [y \in DOMAIN g.cells |->
               [x \in DOMAIN g.cells[y] |->
                 IF Coord(x, y) = pos THEN s ELSE g.cells[y][x]]],
   generation |-> g.generation]

Flipped(c) == IF c = Alive THEN Dead ELSE IF c = Dead THEN Alive ELSE c

C12_TwiceRestores ==
  \A pos \in Positions(grid) :
    /\ toggle(grid, pos) = Replaced(grid, pos, Flipped(CellAt(grid, pos)))
    /\ toggle(grid, pos) # grid
    /\ toggle(toggle(grid, pos), pos) = grid

\* C12: toggle is an involution: a single toggle of an in-bounds pos changes
\* Alive to Dead and Dead to Alive at pos and leaves every other cell and the
\* generation unchanged; toggling pos twice restores the original cell (and
\* so the original grid).
C12_ToggleInvolution ==
  /\ []C12_TwiceRestores
  /\ [][ last'.op = "toggle" /\ last'.pos \in Positions(grid)
           => /\ ~panicked'
              /\ grid' = Replaced(grid, last'.pos, Flipped(CellAt(grid, last'.pos)))
              /\ CellAt(grid', last'.pos) # CellAt(grid, last'.pos)
              /\ ret' = ret ]_vars
  /\ [][ (/\ last.op = "toggle" /\ last'.op = "toggle" /\ last'.pos = last.pos
          /\ last.pos \in Positions(grid))
           => /\ CellAt(grid', last.pos) = Flipped(last.val)
              /\ toggle(grid', last.pos) = grid ]_vars

\* On a non-square grid a cell that was Alive has just been toggled to Dead
\* while another cell stayed Alive.
C12_Witness ==
  /\ last.op = "toggle" /\ ~panicked /\ last.pos \in Positions(grid)
  /\ W # H
  /\ last.val = Dead /\ CellAt(grid, last.pos) = Dead
  /\ \E pos \in Positions(grid) : CellAt(grid, pos) = Alive

IsPrefix(s, t) == Len(s) <= Len(t) /\ SubSeq(t, 1, Len(s)) = s

\* An iterator that has nothing left to yield
Drained(it) == ~next(it).item.some

\* The items that it yields from where it stands until next returns None
RECURSIVE Drain(_)
Drain(it) ==
  LET r == next(it)
  IN IF r.item.some THEN <<r.item.val>> \o Drain(r.iter) ELSE << >>

\* C13: the enumeration of the neighbours is restartable and deterministic:
\* two enumerations of the same coordinate within the same extents, the
\* second one started after the first one was consumed in part or in full,
\* yield the same sequence; calls of next on one of them do not change what
\* the other one yields.
C13_SameSequence ==
  iter.some =>
    /\ IsPrefix(yielded, Drain(into_iter(neighbors(position.val, extents.val))))
    /\ Drained(iter.it) =>
         yielded = Drain(into_iter(neighbors(position.val, extents.val)))
    /\ earlier.some =>
         /\ IsPrefix(earlier.yielded, yielded) \/ IsPrefix(yielded, earlier.yielded)
         /\ Drained(earlier.it) /\ Drained(iter.it) => earlier.yielded = yielded

C13_Restartable ==
  /\ []C13_SameSequence
  /\ [][ last'.op = "next" => earlier' = earlier ]_vars
  /\ [][ last'.op = "next_earlier" => iter' = iter /\ yielded' = yielded ]_vars
  /\ [][ last'.op = "into_iter" => iter'.it.index = 0 /\ yielded' = << >> ]_vars

\* The first enumeration of the neighbours of (2, 2) within (3, 3) stopped
\* after 3 items, the second one ran to its end and yielded 8 items, the
\* first 3 of which are the ones of the first enumeration.
C13_Witness ==
  /\ iter.some /\ earlier.some /\ ~panicked
  /\ position.val = SVec2(2, 2) /\ extents.val = SVec2(3, 3)
  /\ Len(earlier.yielded) = 3 /\ ~Drained(earlier.it)
  /\ Len(yielded) = 8 /\ Drained(iter.it)
  /\ last.op = "next" /\ ~item.some

\* svec2 with a zero argument panicked and produced no value.
C14_Svec2Rejects ==
  last.op = "svec2" /\ (last.pos[1] = 0 \/ last.pos[2] = 0) => panicked

\* C14: ill-formed extents are rejected: svec2(x, y) with x = 0 or y = 0
\* ends in a panic instead of a value, no value with a zero width or a zero
\* height is passed to neighbors as extents, and no sequence is enumerated
\* for extents that have a zero dimension.
C14_ZeroExtentsRejected ==
  /\ C14_Svec2Rejects
  /\ iter.some => extents.val.x # 0 /\ extents.val.y # 0
  /\ iter.some /\ yielded # << >> => extents.val.x # 0 /\ extents.val.y # 0

\* The grid constructed last, as Grid::<w, h>::new() and ::default() give it
Constructed(g, w, h) ==
  /\ DOMAIN g.cells = 0..(h - 1)
  /\ \A y \in 0..(h - 1) : DOMAIN g.cells[y] = 0..(w - 1)
  /\ \A y \in 0..(h - 1) : \A x \in 0..(w - 1) : g.cells[y][x] = Dead
  /\ g.generation = 0

\* C15: new() produces a grid in which every one of the W x H cells is Dead
\* and the generation is 0; default() produces a grid equal to it cell by
\* cell and in generation.
C15_NewAllDead ==
  last.op \in {"new", "default"} =>
    /\ Constructed(grid, last.pos[1], last.pos[2])
    /\ Cardinality(Positions(grid)) = last.pos[1] * last.pos[2]
    /\ grid = new(last.pos[1], last.pos[2])
    /\ default(last.pos[1], last.pos[2]) = new(last.pos[1], last.pos[2])
    /\ \A pos \in Positions(grid) :
         CellAt(default(last.pos[1], last.pos[2]), pos) = CellAt(new(last.pos[1], last.pos[2]), pos)

\* default() just built a grid of 3 columns and 2 rows, all Dead.
C15_Witness ==
  /\ last.op = "default" /\ last.pos = Coord(3, 2)
  /\ W = 3 /\ H = 2
  /\ AllDead(grid) /\ grid.generation = 0

\* Every position of [0,W) x [0,H) can be read and written.
C16_AllAccessible ==
  \A pos \in Positions(grid) :
    /\ ~Index(grid, pos).panic
    /\ \A s \in Cell :
         /\ ~IndexMutSet(grid, pos, s).panic
         /\ Index(IndexMutSet(grid, pos, s).grid, pos) = [panic |-> FALSE, val |-> s]

\* C16: a cell write affects exactly one cell, also on non-square grids: for
\* every in-bounds pos = (x, y) and every state s, after grid[pos] = s a read
\* of grid[pos] returns s, every other cell keeps its value and the generation
\* is unchanged; x selects the column and y the row, and every position of
\* [0,W) x [0,H) is writable and readable.
C16_WriteOneCell ==
  /\ []C16_AllAccessible
  /\ [][ last'.op = "set" /\ last'.pos \in Positions(grid)
           => /\ ~panicked'
              /\ grid' = Replaced(grid, last'.pos, last'.val)
              /\ grid'.cells[last'.pos[2]][last'.pos[1]] = last'.val
              /\ grid'.generation = grid.generation
              /\ ret' = ret ]_vars
  /\ [][ (/\ last.op = "set" /\ last.pos \in Positions(grid)
          /\ last'.op = "get" /\ last'.pos = last.pos)
           => ~panicked' /\ last'.val = last.val /\ grid' = grid ]_vars

\* On a grid of 3 columns and 2 rows the cell of the last column and last
\* row was set Alive and read back, every other cell being Dead.
C16_Witness ==
  /\ last = Op("get", Coord(2, 1), Alive) /\ ~panicked
  /\ W = 3 /\ H = 2
  /\ \A pos \in Positions(grid) : CellAt(grid, pos) = Alive <=> pos = Coord(2, 1)

\* The values of the eight fields of n, in the order of the literal
FieldsOf(n) ==
  << n.top_left, n.top, n.top_right, n.right,
     n.bottom_right, n.bottom, n.bottom_left, n.left >>

\* The translations listed as evaluated are the ones that make up the
\* fields of neighbors.
FieldsAgree(p, e) ==
  LET fields == NeighborFields(p, e)
      n == FieldsOf(neighbors(p, e))
  IN \A i \in 1..8 :
       /\ n[i].some = fields[i].pred
       /\ n[i].some =>
            \E c \in Evaluated(p, e) :
              c.fn = fields[i].calls[Len(fields[i].calls)] /\ c.to = n[i].val

\* C17: the enumeration never performs a translation that leaves the
\* coordinate domain: for every position p and extents e with
\* 1 <= p.x <= e.x and 1 <= p.y <= e.y, neighbors evaluates up() only when
\* p.y > 1, left() only when p.x > 1, down() only when p.y < e.y and right()
\* only when p.x < e.x; no subtraction underflows, and every neighbour q it
\* yields satisfies 1 <= q.x <= e.x and 1 <= q.y <= e.y.
C17_NoLeavingTranslation ==
  position.some /\ extents.some /\ Within(position.val, extents.val, 1) =>
    LET p == position.val
        e == extents.val
    IN /\ FieldsAgree(p, e)
       /\ \A c \in Evaluated(p, e) :
            /\ c.fn = "up" => p.y > 1 /\ c.on.y > 1
            /\ c.fn = "left" => p.x > 1 /\ c.on.x > 1
            /\ c.fn = "down" => p.y < e.y /\ c.on.y < e.y
            /\ c.fn = "right" => p.x < e.x /\ c.on.x < e.x
            /\ c.to.x >= 1 /\ c.to.y >= 1
            /\ Within(c.to, e, 1)
       /\ iter.some =>
            /\ \A i \in 1..8 :
                 FieldsOf(iter.it.neighbors)[i].some =>
                   Within(FieldsOf(iter.it.neighbors)[i].val, e, 1)
            /\ \A i \in 1..Len(yielded) : Within(yielded[i], e, 1)
            /\ item.some => Within(item.val, e, 1)

\* The bottom-left corner svec2(1, 3) of svec2(3, 3): up() and right() were
\* evaluated, left() and down() were not, and 3 neighbours were yielded.
C17_Witness ==
  /\ Exhausted
  /\ position.val = SVec2(1, 3) /\ extents.val = SVec2(3, 3)
  /\ { c.fn : c \in Evaluated(position.val, extents.val) } = {"up", "right"}
  /\ Len(yielded) = 3

NoRepeats(seq) == \A i, j \in 1..Len(seq) : seq[i] = seq[j] => i = j

C18_Bounded ==
  /\ iter.some =>
       /\ iter.it.index \in 0..8
       /\ Len(yielded) <= iter.it.index
       /\ Len(yielded) <= 8
       /\ NoRepeats(yielded)
       /\ item.some => last.op \in {"next", "next_earlier"} /\ iter.it.index >= 1
  /\ earlier.some =>
       /\ earlier.it.index \in 0..8
       /\ Len(earlier.yielded) <= earlier.it.index
       /\ NoRepeats(earlier.yielded)
  /\ last.op = "next" =>
       /\ last.pos[2] = iter.it.index
       /\ last.pos[1] < 8 => last.pos[2] > last.pos[1]
       /\ last.pos[1] = 8 => last.pos[2] = 8 /\ ~item.some
       /\ ~item.some => iter.it.index = 8

\* C18: the iterator is finite and stays exhausted: from index 0 on, every
\* call of next strictly increases index until it is 8, index never exceeds
\* 8, at most 8 calls return a coordinate, none is yielded twice, and once
\* next has returned None every later call returns None and yields nothing.
C18_StaysExhausted ==
  /\ []C18_Bounded
  /\ [][ last'.op = "into_iter" => iter'.it.index = 0 ]_vars
  /\ [][ last'.op = "next" =>
           /\ iter.it.index < 8 => iter'.it.index > iter.it.index
           /\ iter.it.index = 8 =>
                iter'.it.index = 8 /\ ~item'.some /\ yielded' = yielded
           /\ ~item'.some => iter'.it.index = 8 /\ yielded' = yielded
           /\ item'.some => yielded' = Append(yielded, item'.val) ]_vars
  /\ [][ (last.op = "next" /\ ~item.some /\ last'.op \in {"next", "next_earlier"})
           => ~item'.some /\ yielded' = yielded /\ iter' = iter ]_vars

\* In the corner svec2(1, 1) of svec2(3, 3), after 3 items and a first None,
\* next was called again at index 8 and returned None again.
C18_Witness ==
  /\ iter.some /\ ~panicked
  /\ position.val = SVec2(1, 1) /\ extents.val = SVec2(3, 3)
  /\ last = Op("next", Coord(8, 8), Dead) /\ ~item.some
  /\ ~iter.it.neighbors.left.some
  /\ Len(yielded) = 3

====
